---- MODULE Spec2Model ----
(***************************************************************************)
(* The CIAM client (class Ciam) in its three revisions: src/src/index.ts,  *)
(* src/unnamed/part_000 and src/unnamed/part_001.  A client is constructed *)
(* in one revision; request methods are invoked on it, each validating its *)
(* arguments, issuing a transport request and, when the transport answers, *)
(* passing the answer through the response interceptor and cast().         *)
(*                                                                         *)
(* Strings are sequences of one-character strings so that the validators   *)
(* and startsWith can be computed on them.                                 *)
(***************************************************************************)
EXTENDS Integers, Sequences, FiniteSets, TLC

VARIABLES rev, token, api, self, pendingMe, boot, calls, nSetToken

vars == <<rev, token, api, self, pendingMe, boot, calls, nSetToken>>

----------------------------------------------------------------------------
(* Bounds of the model *)

\* largest skip / out-of-range distance tried by the list operations
MaxSkip == 1
\* number of setToken calls in one behaviour
MaxSetToken == 1

\* the callers that invoke request methods on the one client
Callers == {"c1"}

----------------------------------------------------------------------------
(* JavaScript values *)

\* an absent optional value (undefined); v keeps the shape of a present one
Undef == [def |-> FALSE, v |-> <<>>]
Val(x) == [def |-> TRUE, v |-> x]
\* an omitted number and an omitted boolean argument
NoNum == [def |-> FALSE, v |-> 0]
NoBool == [def |-> FALSE, v |-> FALSE]

\* a parameter with a default value: `skip: number = 0`
Param(a, dflt) == IF a.def THEN a.v ELSE dflt

\* truthiness of an optional string or array-less object field: `if (role.name)`
TruthyStr(a) == a.def /\ Len(a.v) > 0

\* String.prototype.startsWith
StartsWith(s, p) == Len(s) >= Len(p) /\ SubSeq(s, 1, Len(p)) = p

DigitString == <<"0","1","2","3","4","5","6","7","8","9">>

\* `${n}` of a non-negative integer: its decimal digits
RECURSIVE Digits(_)
Digits(n) == IF n < 10 THEN <<DigitString[n + 1]>>
             ELSE Append(Digits(n \div 10), DigitString[(n % 10) + 1])

\* `${n}` of an integer
NumToString(n) == IF n < 0 THEN <<"-">> \o Digits(-n) ELSE Digits(n)

----------------------------------------------------------------------------
(* The validators of ciam-commons (Check.* / the named imports) *)

ObjectIdLen == 24
HexChars == {"0","1","2","3","4","5","6","7","8","9","a","b","c","d","e","f"}
DigitChars == {"0","1","2","3","4","5","6","7","8","9"}
IdentChars == DigitChars \cup
  {"a","b","c","d","e","f","g","h","i","j","k","l","m","n","o","p","q","r",
   "s","t","u","v","w","x","y","z","_"}

\* the field a validator names when the caller passes none
NoField == "(default)"

\* the result of a passed validation
Ok == "ok"

IsObjectId(s) == Len(s) = ObjectIdLen /\ \A i \in 1..Len(s) : s[i] \in HexChars
IsDiscordId(s) == Len(s) > 0 /\ \A i \in 1..Len(s) : s[i] \in DigitChars

\* segments of a flag: the text between the dots
RECURSIVE Split(_, _)
Split(s, cur) ==
  IF s = <<>> THEN <<cur>>
  ELSE IF Head(s) = "." THEN <<cur>> \o Split(Tail(s), <<>>)
  ELSE Split(Tail(s), Append(cur, Head(s)))

IsIdent(seg) == Len(seg) > 0 /\ \A i \in 1..Len(seg) : seg[i] \in IdentChars

IsStrictFlag(s) ==
  LET segs == Split(s, <<>>) IN \A i \in 1..Len(segs) : IsIdent(segs[i])

IsFlag(s) ==
  LET segs == Split(s, <<>>) IN
    /\ IsIdent(segs[1])
    /\ \A i \in 2..Len(segs) : IsIdent(segs[i]) \/ (i = Len(segs) /\ segs[i] = <<"*">>)

\* each validator yields Ok or the field its failure names
notEmpty(value, field) == IF Len(value) = 0 THEN field ELSE Ok
objectId(value, field) == IF IsObjectId(value) THEN Ok ELSE field
discordId(value, field) == IF IsDiscordId(value) THEN Ok ELSE field
min(value, floor, field) == IF value < floor THEN field ELSE Ok
inRange(value, lo, hi, field) == IF value < lo \/ value > hi THEN field ELSE Ok
oneOf(value, allowed, field) == IF value \in allowed THEN Ok ELSE field
flag(value) == IF IsFlag(value) THEN Ok ELSE "flag"
strictFlag(value) == IF IsStrictFlag(value) THEN Ok ELSE "flag"

\* the first failure of a sequence of validations run in order, or Ok
RECURSIVE First(_)
First(rs) == IF rs = <<>> THEN Ok
             ELSE IF Head(rs) # Ok THEN Head(rs) ELSE First(Tail(rs))

\* array.forEach(f => flag(f)) and array.forEach(r => objectId(r)) as the
\* list of the results
EachFlag(arr) == [i \in 1..Len(arr) |-> flag(arr[i])]
EachObjectId(arr) == [i \in 1..Len(arr) |-> objectId(arr[i], NoField)]

\* optional array: `x?.forEach(...)`
EachFlagOpt(a) == IF a.def THEN EachFlag(a.v) ELSE <<>>
EachObjectIdOpt(a) == IF a.def THEN EachObjectId(a.v) ELSE <<>>

----------------------------------------------------------------------------
(* Values the callers pass *)

Empty == <<>>
IdZero == [i \in 1..ObjectIdLen |-> "0"]
IdHex == [i \in 1..ObjectIdLen |-> IF i % 2 = 0 THEN "a" ELSE "5"]
NotAnId == <<"n","o","t","-","a","n","-","i","d">>
DiscordNine == <<"1","2","3","4","5","6","7","8","9">>
FlagRoleGet == <<"c","i","a","m",".","r","o","l","e",".","g","e","t">>
FlagUserGet == <<"c","i","a","m",".","u","s","e","r",".","g","e","t">>
FlagWild == <<"c","i","a","m",".","*">>
FlagBad == <<"c","i","a","m",".",".","g","e","t">>
Name == <<"b","o","b">>
Descr == <<"d","e","s","c">>
AuthToken == <<"a","u","t","h">>

----------------------------------------------------------------------------
(* The revisions of the client and the request methods each one has *)

RevIndex == "index.ts"
RevPart000 == "part_000"
RevPart001 == "part_001"
Revisions == {RevIndex, RevPart000, RevPart001}

\* the methods that validate arguments and then issue one request
MethodsIndex == {"getUser", "deleteUser", "createUser", "listUsers", "getRole",
  "deleteRole", "createRole", "createPermission", "updatePermission"}
MethodsPart000 == {"getRole", "deleteRole", "createRole", "updateRole", "listRoles",
  "createUser", "getUser", "deleteUser", "updateUser", "listUsers", "valid",
  "getPermission", "deletePermission", "createPermission", "updatePermission",
  "ownPermissions", "listPermissions", "checkPermissions"}
MethodsPart001 == MethodsPart000 \cup {"getUserFromAuthToken"}

Methods(r) == IF r = RevIndex THEN MethodsIndex
              ELSE IF r = RevPart000 THEN MethodsPart000 ELSE MethodsPart001

ListMethods == {"listRoles", "listUsers", "ownPermissions", "listPermissions"}

\* the list operations that declare (skip = 0, limit = 100)
Paged(r, m) == m \in ListMethods /\ r # RevIndex

DefaultSkip == 0
DefaultLimit == 100
MinLimit == 1
MaxLimit == 100

SubjectTypes == {"user", "role", "discordUser"}

(* Arguments tried for each method.  An omitted optional argument or an   *)
(* absent object field is Undef.                                           *)

IdArgs == {[id |-> i] : i \in {IdZero, NotAnId}}

CreateRoleArgs ==
  { [name |-> Name, description |-> Descr, permissions |-> <<FlagRoleGet, FlagWild>>],
    [name |-> Empty, description |-> Descr, permissions |-> <<FlagRoleGet>>],
    [name |-> Name, description |-> Empty, permissions |-> <<FlagRoleGet>>],
    [name |-> Name, description |-> Descr, permissions |-> <<FlagBad>>] }

UpdateRoleArgs ==
  { [role |-> [_id |-> i, name |-> n, description |-> d, permissions |-> p]] :
      <<i, n, d, p>> \in
        { <<IdHex, Val(Name), Val(Descr), Val(<<FlagRoleGet>>)>>,
          <<IdHex, Undef, Undef, Undef>>,
          <<IdHex, Val(Empty), Undef, Undef>>,
          <<IdHex, Val(Name), Val(Empty), Undef>>,
          <<IdHex, Val(Empty), Val(Descr), Undef>>,
          <<NotAnId, Val(Name), Val(Descr), Undef>>,
          <<IdHex, Val(Name), Val(Descr), Val(<<FlagBad>>)>> } }

ListArgs ==
  { [skip |-> sl[1], limit |-> sl[2]] :
      sl \in { <<NoNum, NoNum>>,
               <<Val(0 - 1), NoNum>>,
               <<Val(0), Val(MinLimit)>>,
               <<Val(MaxSkip), Val(MaxLimit)>>,
               <<NoNum, Val(MinLimit - 1)>>,
               <<NoNum, Val(MaxLimit + 1)>> } }

CreateUserArgs ==
  { [name |-> t[1], roles |-> t[2], permissions |-> t[3], discord |-> t[4]] :
      t \in { <<Name, <<IdHex>>, <<FlagUserGet>>, Val([id |-> DiscordNine])>>,
              <<Name, <<>>, <<>>, Undef>>,
              <<Empty, <<IdHex>>, <<FlagUserGet>>, Undef>>,
              <<Name, <<IdHex>>, <<FlagUserGet>>, Val([id |-> NotAnId])>>,
              <<Name, <<NotAnId>>, <<FlagUserGet>>, Undef>>,
              <<Name, <<IdHex>>, <<FlagBad>>, Undef>> } }

UpdateUserArgs ==
  { [user |-> [_id |-> t[1], name |-> t[2], roles |-> t[3], permissions |-> t[4],
               discord |-> t[5]]] :
      t \in { <<IdHex, Val(Name), Val(<<IdZero>>), Val(<<FlagUserGet>>),
                Val([id |-> DiscordNine])>>,
              <<IdHex, Val(Empty), Undef, Undef, Undef>>,
              <<NotAnId, Val(Name), Undef, Undef, Undef>>,
              <<IdHex, Val(Name), Val(<<NotAnId>>), Undef, Undef>>,
              <<IdHex, Val(Name), Undef, Val(<<FlagBad>>), Undef>>,
              <<IdHex, Val(Name), Undef, Undef, Val([id |-> NotAnId])>> } }

FlagArgs == {[flag |-> f] : f \in {FlagRoleGet, FlagWild}}

CreatePermissionArgs ==
  { [name |-> t[1], description |-> t[2], flag |-> t[3]] :
      t \in { <<Name, Descr, FlagRoleGet>>,
              <<Empty, Descr, FlagRoleGet>>,
              <<Name, Empty, FlagRoleGet>>,
              <<Name, Descr, FlagWild>> } }

UpdatePermissionArgs ==
  { [permission |-> [flag |-> t[1], name |-> t[2], description |-> t[3]]] :
      t \in { <<FlagRoleGet, Val(Name), Val(Descr)>>,
              <<FlagRoleGet, Val(Empty), Undef>>,
              <<FlagRoleGet, Undef, Val(Empty)>>,
              <<FlagWild, Val(Name), Val(Descr)>> } }

CheckPermissionsArgs ==
  { [type |-> t[1], id |-> t[2], required |-> t[3], additional |-> t[4],
     includeMissing |-> t[5]] :
      t \in ( { <<ty, i, <<FlagRoleGet>>, Undef, NoBool>> :
                  ty \in SubjectTypes, i \in {IdHex, DiscordNine, NotAnId} }
              \cup
              { <<"group", IdHex, <<FlagRoleGet>>, Undef, NoBool>>,
                <<"user", IdHex, <<>>, Undef, NoBool>>,
                <<"user", IdHex, <<FlagBad>>, Undef, NoBool>>,
                <<"role", IdHex, <<FlagRoleGet, FlagWild>>, Val(<<FlagUserGet>>), Val(TRUE)>>,
                <<"user", IdHex, <<FlagRoleGet>>, Val(<<FlagBad>>), Val(FALSE)>> } ) }

NoArgs == {[none |-> TRUE]}

Args(r, m) ==
  CASE m \in {"getRole", "deleteRole", "getUser", "deleteUser"} -> IdArgs
    [] m = "createRole" -> CreateRoleArgs
    [] m = "updateRole" -> UpdateRoleArgs
    [] m \in ListMethods -> IF Paged(r, m) THEN ListArgs ELSE NoArgs
    [] m = "createUser" ->
         IF r = RevIndex THEN {a \in CreateUserArgs : ~a.discord.def}
         ELSE CreateUserArgs
    [] m = "updateUser" -> UpdateUserArgs
    [] m \in {"getPermission", "deletePermission"} -> FlagArgs
    [] m = "createPermission" -> CreatePermissionArgs
    [] m = "updatePermission" -> UpdatePermissionArgs
    [] m = "checkPermissions" -> CheckPermissionsArgs
    [] m = "valid" -> NoArgs
    [] m = "getUserFromAuthToken" -> {[authToken |-> AuthToken]}

----------------------------------------------------------------------------
(* The validations of each method, in the order the method runs them *)

ValidateUpdateRole(role) ==
  First( <<objectId(role._id, NoField)>>
         \o EachFlagOpt(role.permissions)
         \o (IF TruthyStr(role.name) THEN <<notEmpty(role.name.v, "role.name")>> ELSE <<>>)
         \o (IF TruthyStr(role.description)
             THEN <<notEmpty(role.name.v, "role.description")>> ELSE <<>>) )

ValidateCreateUser(r, a) ==
  IF r = RevIndex THEN notEmpty(a.name, "name")
  ELSE First( <<notEmpty(a.name, "name")>>
              \o (IF a.discord.def THEN <<discordId(a.discord.v.id, "discord.id")>> ELSE <<>>)
              \o EachObjectId(a.roles)
              \o EachFlag(a.permissions) )

ValidateUpdateUser(user) ==
  First( <<objectId(user._id, NoField)>>
         \o (IF user.discord.def THEN <<discordId(user.discord.v.id, "discord.id")>> ELSE <<>>)
         \o EachObjectIdOpt(user.roles)
         \o EachFlagOpt(user.permissions)
         \o (IF TruthyStr(user.name) THEN <<notEmpty(user.name.v, "user.name")>> ELSE <<>>) )

ValidateUpdatePermission(r, permission) ==
  IF r = RevIndex THEN Ok
  ELSE First( <<strictFlag(permission.flag)>>
              \o (IF TruthyStr(permission.name)
                  THEN <<notEmpty(permission.name.v, "permission.description")>> ELSE <<>>)
              \o (IF TruthyStr(permission.description)
                  THEN <<notEmpty(permission.description.v, "permission.description")>>
                  ELSE <<>>) )

\* a limit check that is off by one at the lower end
ValidateListFromZero(r, m, a) ==
  IF Paged(r, m)
  THEN First(<< min(Param(a.skip, DefaultSkip), 0, "skip"),
                inRange(Param(a.limit, DefaultLimit), MinLimit - 1, MaxLimit, "limit") >>)
  ELSE Ok

ValidateList(r, m, a) ==
  IF Paged(r, m)
  THEN First(<< min(Param(a.skip, DefaultSkip), 0, "skip"),
                inRange(Param(a.limit, DefaultLimit), MinLimit, MaxLimit, "limit") >>)
  ELSE Ok

ValidateCheckPermissions(a) ==
  First( <<oneOf(a.type, SubjectTypes, "type")>>
         \o (IF a.type = "user" \/ a.type = "role" THEN <<objectId(a.id, "id")>>
             ELSE IF a.type = "discordUser" THEN <<discordId(a.id, NoField)>>
             ELSE <<>>)
         \o <<notEmpty(a.required, "required")>>
         \o EachFlag(a.required)
         \o EachFlagOpt(a.additional) )

\* Ok, or the field named by the first validation of method m that fails
Validate(r, m, a) ==
  CASE m \in {"getRole", "deleteRole", "getUser", "deleteUser"} -> objectId(a.id, NoField)
    [] m = "createRole" ->
         First( <<notEmpty(a.name, "name"), notEmpty(a.description, "description")>>
                \o (IF r = RevIndex THEN <<>> ELSE EachFlag(a.permissions)) )
    [] m = "updateRole" -> ValidateUpdateRole(a.role)
    [] m \in ListMethods -> ValidateList(r, m, a)
    [] m = "createUser" -> ValidateCreateUser(r, a)
    [] m = "updateUser" -> ValidateUpdateUser(a.user)
    [] m \in {"getPermission", "deletePermission"} -> strictFlag(a.flag)
    [] m = "createPermission" ->
         First(<< notEmpty(a.name, "name"), notEmpty(a.description, "description"),
                  strictFlag(a.flag) >>)
    [] m = "updatePermission" -> ValidateUpdatePermission(r, a.permission)
    [] m = "checkPermissions" -> ValidateCheckPermissions(a)
    [] m \in {"valid", "getUserFromAuthToken"} -> Ok

----------------------------------------------------------------------------
(* The request each method hands to the transport *)

\* a template literal: the literal parts and the interpolated strings, joined
Route(lit, arg) == <<lit>> \o arg

ListPath(r, m, a) ==
  LET base == CASE m = "listRoles" -> "/role/list"
                [] m = "listUsers" -> "/user/list"
                [] m = "ownPermissions" -> "/permission/me"
                [] m = "listPermissions" -> "/permission/list"
  IN IF Paged(r, m)
     THEN <<base, "?skip=">> \o NumToString(Param(a.skip, DefaultSkip))
          \o <<"&limit=">> \o NumToString(Param(a.limit, DefaultLimit))
     ELSE <<base>>

\* a body that forgets the caller's temporary grants
CheckPermissionsBodyNoGrants(a) ==
  [ type |-> a.type,
    id |-> a.id,
    required |-> a.required,
    additional |-> <<>>,
    includeMissing |-> Param(a.includeMissing, FALSE) ]

CheckPermissionsBody(a) ==
  [ type |-> a.type,
    id |-> a.id,
    required |-> a.required,
    additional |-> Param(a.additional, <<>>),
    includeMissing |-> Param(a.includeMissing, FALSE) ]

CreateUserBody(r, a) ==
  IF r = RevIndex
  THEN [name |-> a.name, roles |-> a.roles, permissions |-> a.permissions]
  ELSE [name |-> a.name, roles |-> a.roles, permissions |-> a.permissions,
        discord |-> a.discord]

\* method, path, body (Undef when the call passes none) and extra headers
Req(verb, path, body, headers) ==
  [verb |-> verb, path |-> path, body |-> body, headers |-> headers]

NoHeaders == <<>>

Request(r, m, a) ==
  CASE m = "getRole" -> Req("GET", Route("/role/", a.id), Undef, NoHeaders)
    [] m = "deleteRole" -> Req("DELETE", Route("/role/", a.id), Undef, NoHeaders)
    [] m = "createRole" ->
         Req("POST", <<"/role/create">>,
             Val([name |-> a.name, description |-> a.description,
                  permissions |-> a.permissions]), NoHeaders)
    [] m = "updateRole" -> Req("POST", <<"/role/update">>, Val(a.role), NoHeaders)
    [] m \in ListMethods -> Req("GET", ListPath(r, m, a), Undef, NoHeaders)
    [] m = "createUser" ->
         Req("POST", <<"/user/create">>, Val(CreateUserBody(r, a)), NoHeaders)
    [] m = "getUser" -> Req("GET", Route("/user/", a.id), Undef, NoHeaders)
    [] m = "deleteUser" -> Req("DELETE", Route("/role/", a.id), Undef, NoHeaders)
    [] m = "updateUser" -> Req("POST", <<"/user/update">>, Undef, NoHeaders)
    [] m = "valid" -> Req("GET", <<"/user/valid">>, Undef, NoHeaders)
    [] m = "getPermission" -> Req("GET", Route("/permission/", a.flag), Undef, NoHeaders)
    [] m = "deletePermission" ->
         Req("DELETE", Route("/permission/", a.flag), Undef, NoHeaders)
    [] m = "createPermission" ->
         Req("POST", <<"/permission/create">>,
             Val([name |-> a.name, description |-> a.description, flag |-> a.flag]),
             NoHeaders)
    [] m = "updatePermission" ->
         Req("POST", <<"/permission/update">>, Val(a.permission), NoHeaders)
    [] m = "checkPermissions" ->
         Req("POST", <<"/permission/has">>, Val(CheckPermissionsBody(a)), NoHeaders)
    [] m = "getUserFromAuthToken" ->
         Req("GET", <<"/auth/user">>, Undef, <<<<"ciam_token", a.authToken>>>>)

----------------------------------------------------------------------------
(* What the transport (axios) answers *)

\* a response body as axios decodes it: a string, or a JSON object, whose
\* `missing` property is set or not
StringBody(s) == [k |-> "string", s |-> s, missing |-> Undef]
ObjectBody(missing) == [k |-> "object", s |-> <<>>, missing |-> missing]

MissingPrefix ==
  <<"M","i","s","s","i","n","g"," ","p","e","r","m","i","s","s","i","o","n","s">>
MissingUserGet == MissingPrefix \o <<":"," ","[">> \o FlagUserGet \o <<"]">>
Unauthorized == <<"U","n","a","u","t","h","o","r","i","z","e","d">>
NotFound == <<"N","o","t"," ","f","o","u","n","d">>

\* a 2xx answer: the promise of the transport fulfils with the response
Response(status, data) == [kind |-> "response", status |-> status, data |-> data]

\* a failed request: an AxiosError, with `response` when the server answered.
\* An AxiosError has no `data` property of its own.
AxiosError(response) ==
  [kind |-> "error", name |-> "AxiosError", response |-> response, data |-> Undef]

HttpError(status, data) == AxiosError(Val([status |-> status, data |-> data]))
NetworkError == AxiosError(Undef)

Answers ==
  { Response(200, ObjectBody(Undef)),
    Response(200, StringBody(Empty)),
    HttpError(401, StringBody(MissingUserGet)),
    HttpError(401, StringBody(Unauthorized)),
    HttpError(401, ObjectBody(Val(<<FlagUserGet>>))),
    HttpError(403, ObjectBody(Val(<<FlagUserGet>>))),
    HttpError(404, StringBody(NotFound)),
    HttpError(404, ObjectBody(Undef)),
    HttpError(500, StringBody(Empty)),
    NetworkError }

----------------------------------------------------------------------------
(* Settled promises, errors, the response interceptor and cast() *)

Fulfilled(value) == [st |-> "fulfilled", value |-> value]
Rejected(reason) == [st |-> "rejected", reason |-> reason]

InvalidArgument(field) == [name |-> "InvalidArgument", field |-> field]
TypeError == [name |-> "TypeError"]
\* a bare string used as a rejection reason
Thrown(s) == [name |-> "string", s |-> s]

\* Array.prototype.join
RECURSIVE Join(_, _)
Join(arr, sep) ==
  IF arr = <<>> THEN <<>>
  ELSE IF Len(arr) = 1 THEN arr[1]
  ELSE arr[1] \o sep \o Join(Tail(arr), sep)

\* new PermissionError(missing): only the message keeps the flags
PermissionError(missing) ==
  [ name |-> "PermissionError",
    message |-> MissingPrefix \o <<":"," ","[">> \o Join(missing, <<","," ">>) \o <<"]">> ]

InvalidCiamToken ==
  <<"I","n","v","a","l","i","d"," ","C","I","A","M"," ","t","o","k","e","n">>
LiteralMessage == <<"m","e","s","s","a","g","e">>

\* `data?.length > 0`
HasLength(data) == data.k = "string" /\ Len(data.s) > 0

\* the rejection handler of index.ts and part_000
InterceptOld(r, error) ==
  IF ~error.response.def THEN Rejected(TypeError)
  ELSE IF error.response.v.status = 401
  THEN LET message == error.data
       IN IF ~message.def THEN Rejected(TypeError)
          ELSE IF StartsWith(message.v, MissingPrefix)
          THEN Rejected(Thrown(IF r = RevIndex THEN LiteralMessage ELSE message.v))
          ELSE Rejected(Thrown(InvalidCiamToken))
  ELSE IF error.response.v.status = 404 /\ HasLength(error.response.v.data)
  THEN Fulfilled(Undef)
  ELSE Rejected(error)

\* the rejection handler of part_001
InterceptNew(error) ==
  IF error.name = "AxiosError" /\ error.response.def
     /\ error.response.v.data.k = "object" /\ error.response.v.data.missing.def
  THEN Rejected(PermissionError(error.response.v.data.missing.v))
  ELSE Rejected(error)

\* what `await this.api.<verb>(...)` settles to, for a request issued on an
\* instance with (intercepted) or without the response interceptor
Intercept(r, intercepted, answer) ==
  IF answer.kind = "response" THEN Fulfilled(Val(answer))
  ELSE IF ~intercepted THEN Rejected(answer)
  ELSE IF r = RevPart001 THEN InterceptNew(answer)
  ELSE InterceptOld(r, answer)

\* cast<T>(obj): obj ? obj : undefined; a response object is truthy
cast(obj) == IF obj.def THEN obj ELSE Undef

\* the promise a method returns, from what its await settled to
Settle(m, awaited) ==
  IF m = "valid"
  THEN Fulfilled(Val(awaited.st = "fulfilled"))
  ELSE IF awaited.st = "fulfilled" THEN Fulfilled(cast(awaited.value))
  ELSE awaited

----------------------------------------------------------------------------
(* The client *)

TokenA == "tokenA"
TokenB == "tokenB"
Tokens == {TokenA, TokenB}

\* the user /user/me answers for a token
UserOf(t) == [_id |-> IF t = TokenA THEN IdZero ELSE IdHex]

\* axios.create({baseURL, headers: {Authorization: `Bearer ${token}`}})
Create(id, t) == [id |-> id, bearer |-> t, intercepted |-> FALSE]

\* interceptors.response.use(...) on an instance
Use(inst) == [inst EXCEPT !.intercepted = TRUE]

\* no answer of the transport yet
NoAnswer == [kind |-> "none"]

\* a caller that has not invoked a method; otherwise the method, its
\* arguments, the requests it issued, the answer its request got and the
\* promise it returned
Idle == [pc |-> "idle", method |-> "none", args |-> <<>>, sent |-> <<>>,
         answer |-> NoAnswer, result |-> Fulfilled(Undef)]

TypeOK ==
  /\ rev \in Revisions
  /\ token \in Tokens
  /\ api.bearer \in Tokens /\ api.intercepted \in BOOLEAN
  /\ self.def \in BOOLEAN
  /\ boot \in {"none", "pending", "done"}
  /\ nSetToken \in 0..MaxSetToken
  /\ \A c \in Callers : calls[c].pc \in {"idle", "awaiting", "done"}

\* the state the constructor leaves
Init ==
  /\ rev \in Revisions
  /\ token = TokenA
  /\ api = Use(Create(1, TokenA))
  /\ self = Undef
  /\ pendingMe = IF rev = RevPart001 THEN {[bearer |-> TokenA, via |-> 1]} ELSE {}
  /\ boot = IF rev = RevPart001 THEN "none" ELSE "pending"
  /\ calls = [c \in Callers |-> Idle]
  /\ nSetToken = 0

\* the wire request of a call: what the method built, on the current instance
Issue(req, inst) ==
  [req |-> req, bearer |-> inst.bearer, via |-> inst.id, intercepted |-> inst.intercepted]

\* a method that calls the transport before it validates
InvokeSendFirst(c, m, a) ==
  /\ calls[c].pc = "idle"
  /\ LET failed == Validate(rev, m, a)
     IN calls' = [calls EXCEPT ![c] =
          IF failed # Ok
          THEN [pc |-> "done", method |-> m, args |-> a,
                sent |-> <<Issue(Request(rev, m, a), api)>>,
                answer |-> NoAnswer,
                result |-> Rejected(InvalidArgument(failed))]
          ELSE [pc |-> "awaiting", method |-> m, args |-> a,
                sent |-> <<Issue(Request(rev, m, a), api)>>,
                answer |-> NoAnswer,
                result |-> Fulfilled(Undef)]]
  /\ UNCHANGED <<rev, token, api, self, pendingMe, boot, nSetToken>>

\* a request method runs up to its await: the validations, then the request
Invoke(c, m, a) ==
  /\ calls[c].pc = "idle"
  /\ LET failed == Validate(rev, m, a)
     IN calls' = [calls EXCEPT ![c] =
          IF failed # Ok
          THEN [pc |-> "done", method |-> m, args |-> a, sent |-> <<>>,
                answer |-> NoAnswer,
                result |-> Rejected(InvalidArgument(failed))]
          ELSE [pc |-> "awaiting", method |-> m, args |-> a,
                sent |-> <<Issue(Request(rev, m, a), api)>>,
                answer |-> NoAnswer,
                result |-> Fulfilled(Undef)]]
  /\ UNCHANGED <<rev, token, api, self, pendingMe, boot, nSetToken>>

\* a method that sends its request once more when the first one fails
AnswerRetry(c, answer) ==
  /\ calls[c].pc = "awaiting"
  /\ LET call == calls[c]
         awaited == Intercept(rev, call.sent[1].intercepted, answer)
     IN calls' = [calls EXCEPT ![c] =
          [call EXCEPT !.pc = "done", !.answer = answer,
                       !.sent = IF answer.kind = "error"
                                THEN Append(call.sent, call.sent[1]) ELSE call.sent,
                       !.result = Settle(call.method, awaited)]]
  /\ UNCHANGED <<rev, token, api, self, pendingMe, boot, nSetToken>>

\* a transport whose answers pass through the interceptors of the client's
\* current instance rather than of the instance the request was issued on
AnswerOnCurrent(c, answer) ==
  /\ calls[c].pc = "awaiting"
  /\ LET call == calls[c]
         awaited == Intercept(rev, api.intercepted, answer)
     IN calls' = [calls EXCEPT ![c] =
          [call EXCEPT !.pc = "done", !.answer = answer,
                       !.result = Settle(call.method, awaited)]]
  /\ UNCHANGED <<rev, token, api, self, pendingMe, boot, nSetToken>>

\* the transport answers the request of a call; the method resumes and returns
Answer(c, answer) ==
  /\ calls[c].pc = "awaiting"
  /\ LET call == calls[c]
         awaited == Intercept(rev, call.sent[1].intercepted, answer)
     IN calls' = [calls EXCEPT ![c] =
          [call EXCEPT !.pc = "done", !.answer = answer,
                       !.result = Settle(call.method, awaited)]]
  /\ UNCHANGED <<rev, token, api, self, pendingMe, boot, nSetToken>>

\* the constructor's GET /auth/valid is answered (index.ts, part_000); its
\* handler changes nothing
AuthValidAnswered ==
  /\ boot = "pending"
  /\ boot' = "done"
  /\ UNCHANGED <<rev, token, api, self, pendingMe, calls, nSetToken>>

\* setToken(t) up to its await (part_001)
SetToken(t) ==
  /\ rev = RevPart001
  /\ nSetToken < MaxSetToken
  /\ nSetToken' = nSetToken + 1
  /\ token' = t
  /\ api' = Create(api.id + 1, t)
  /\ pendingMe' = pendingMe \cup {[bearer |-> t, via |-> api.id + 1]}
  /\ UNCHANGED <<rev, self, boot, calls>>

\* GET /user/me of a setToken is answered and setToken resumes: status 200
\* stores the user, another 2xx rejects with InvalidToken, a failed request
\* rejects with its error
MeAnswered(p, status) ==
  /\ p \in pendingMe
  /\ pendingMe' = pendingMe \ {p}
  /\ self' = IF status = 200 THEN Val(UserOf(p.bearer)) ELSE self
  /\ UNCHANGED <<rev, token, api, boot, calls, nSetToken>>

MeStatuses == {200, 204, 401}

Next ==
  \/ \E c \in Callers : \E m \in Methods(rev) : \E a \in Args(rev, m) : Invoke(c, m, a)
  \/ \E c \in Callers : \E answer \in Answers : Answer(c, answer)
  \/ AuthValidAnswered
  \/ \E t \in Tokens : SetToken(t)
  \/ \E p \in pendingMe : \E status \in MeStatuses : MeAnswered(p, status)

Spec == Init /\ [][Next]_vars

\* two invocations in flight on one client: the callers and the methods they
\* invoke (a GET by id and a POST with a body, present in every revision)
ConcurrentCallers == {"c1", "c2"}
ConcurrentMethods == {"getUser", "createRole"}

InitConcurrent ==
  /\ rev \in Revisions
  /\ token = TokenA
  /\ api = Use(Create(1, TokenA))
  /\ self = Undef
  /\ pendingMe = IF rev = RevPart001 THEN {[bearer |-> TokenA, via |-> 1]} ELSE {}
  /\ boot = IF rev = RevPart001 THEN "none" ELSE "pending"
  /\ calls = [c \in ConcurrentCallers |-> Idle]
  /\ nSetToken = 0

NextConcurrent ==
  \/ \E c \in ConcurrentCallers : \E m \in ConcurrentMethods :
       \E a \in Args(rev, m) : Invoke(c, m, a)
  \/ \E c \in ConcurrentCallers : \E answer \in Answers : Answer(c, answer)
  \/ AuthValidAnswered
  \/ \E t \in Tokens : SetToken(t)
  \/ \E p \in pendingMe : \E status \in MeStatuses : MeAnswered(p, status)

SpecConcurrent == InitConcurrent /\ [][NextConcurrent]_vars

----------------------------------------------------------------------------
(* Properties *)

\* the request methods that validate arguments
ValidatingMethods ==
  {"getRole", "deleteRole", "createRole", "updateRole", "listRoles", "createUser",
   "getUser", "deleteUser", "updateUser", "listUsers", "getPermission",
   "deletePermission", "createPermission", "updatePermission", "ownPermissions",
   "listPermissions", "checkPermissions"}

Invoked(c) == calls[c].pc # "idle"
Done(c) == calls[c].pc = "done"
\* the invocation passed its validations
Passed(c) == Invoked(c) /\ Validate(rev, calls[c].method, calls[c].args) = Ok
Answered(c) == Done(c) /\ calls[c].answer.kind # "none"

\* C1: an invocation of a request method one of whose argument validations
\* fails is rejected with the validation error of the first failing
\* validation and has issued no transport request.
ValidationFailsFast ==
  \A c \in Callers :
    (Invoked(c) /\ calls[c].method \in ValidatingMethods /\ ~Passed(c)) =>
      /\ Done(c)
      /\ calls[c].sent = <<>>
      /\ calls[c].result.st = "rejected"
      /\ calls[c].result.reason.name = "InvalidArgument"
      /\ calls[c].result.reason.field = Validate(rev, calls[c].method, calls[c].args)

\* C1 witness: checkPermissions('user', 'not-an-id', ['ciam.role.get']) has
\* failed on field id with no request issued.
ValidationFailsFastWitness ==
  \E c \in Callers :
    /\ Done(c) /\ calls[c].method = "checkPermissions"
    /\ calls[c].args.type = "user" /\ calls[c].args.id = NotAnId
    /\ calls[c].args.required = <<FlagRoleGet>>
    /\ calls[c].result = Rejected(InvalidArgument("id"))
    /\ calls[c].sent = <<>>

\* the body of the request a checkPermissions invocation issued
CheckBody(c) == calls[c].sent[1].req.body.v
CheckSent(c) ==
  /\ Invoked(c) /\ calls[c].method = "checkPermissions" /\ Passed(c)
  /\ Len(calls[c].sent) = 1
  /\ calls[c].sent[1].req.verb = "POST"
  /\ calls[c].sent[1].req.path = <<"/permission/has">>
  /\ calls[c].sent[1].req.body.def

\* the values the body of checkPermissions must carry: the caller's
\* arguments, [] and false for the omitted ones
CheckBodyValues(c, typeField) ==
  LET a == calls[c].args
      body == CheckBody(c)
  IN /\ body[typeField] = a.type
     /\ body.id = a.id
     /\ body.required = a.required
     /\ body.additional = (IF a.additional.def THEN a.additional.v ELSE <<>>)
     /\ body.includeMissing = (IF a.includeMissing.def THEN a.includeMissing.v ELSE FALSE)

\* C2 as stated: a checkPermissions invocation that passes validation POSTs
\* to /permission/has a body whose fields are exactly subjectType, id,
\* required, additional, includeMissing, holding the caller's arguments.
CheckBodyHasSubjectType ==
  \A c \in Callers :
    (Invoked(c) /\ calls[c].method = "checkPermissions" /\ Passed(c)) =>
      /\ CheckSent(c)
      /\ DOMAIN CheckBody(c) = {"subjectType", "id", "required", "additional", "includeMissing"}
      /\ CheckBodyValues(c, "subjectType")

\* C2 amended: a checkPermissions invocation that passes validation POSTs
\* to /permission/has a body whose fields are exactly type, id, required,
\* additional, includeMissing: the subject type travels in the field `type`;
\* each field holds the caller's argument, additional = [] and
\* includeMissing = false when omitted.
CheckBodyHasType ==
  \A c \in Callers :
    (Invoked(c) /\ calls[c].method = "checkPermissions" /\ Passed(c)) =>
      /\ CheckSent(c)
      /\ DOMAIN CheckBody(c) = {"type", "id", "required", "additional", "includeMissing"}
      /\ CheckBodyValues(c, "type")

\* C2 witness: checkPermissions('discordUser', '123456789', ['ciam.role.get'])
\* has sent its body with the defaults.
CheckBodyWitness ==
  \E c \in Callers :
       /\ CheckSent(c)
       /\ CheckBody(c) = [type |-> "discordUser", id |-> DiscordNine,
                          required |-> <<FlagRoleGet>>, additional |-> <<>>,
                          includeMissing |-> FALSE]
       /\ ~calls[c].args.additional.def /\ ~calls[c].args.includeMissing.def

\* C3 as stated: checkPermissions validates the id by the subject type: an
\* id that is no ObjectId for user or role, or no DiscordId for discordUser,
\* fails naming the field id; a subject type outside {user, role,
\* discordUser} is rejected.
CheckIdNamesFieldId ==
  \A c \in Callers :
    (Done(c) /\ calls[c].method = "checkPermissions") =>
      LET a == calls[c].args
          res == calls[c].result
      IN /\ a.type \notin SubjectTypes =>
              res.st = "rejected" /\ res.reason.name = "InvalidArgument"
         /\ (a.type \in {"user", "role"} /\ ~IsObjectId(a.id)) =>
              res = Rejected(InvalidArgument("id"))
         /\ (a.type = "discordUser" /\ ~IsDiscordId(a.id)) =>
              res = Rejected(InvalidArgument("id"))

\* C4: an invocation whose arguments pass validation has issued exactly one
\* transport request, while it waits and after the request succeeded or
\* failed alike.
OneRequestPerInvocation ==
  \A c \in Callers : Passed(c) => Len(calls[c].sent) = 1

\* C4 witness: a call whose request failed has returned having issued one
\* request.
OneRequestWitness ==
  \E c \in Callers :
    /\ Answered(c) /\ calls[c].answer.kind = "error"
    /\ calls[c].result.st = "rejected"
    /\ Len(calls[c].sent) = 1

\* a validated call was answered with this status and a non-empty text body
AnsweredText(c, status) ==
  /\ Answered(c) /\ calls[c].method \in ValidatingMethods
  /\ calls[c].answer.kind = "error" /\ calls[c].answer.response.def
  /\ calls[c].answer.response.v.status = status
  /\ calls[c].answer.response.v.data.k = "string"
  /\ Len(calls[c].answer.response.v.data.s) > 0

\* C5 as stated: a call with valid arguments that is answered 404 with a
\* non-empty error body completes successfully with an absent result.
NotFoundIsAbsent ==
  \A c \in Callers : AnsweredText(c, 404) => calls[c].result = Fulfilled(Undef)

\* a permission-denied failure carrying the text of the missing flags: the
\* PermissionError of part_001, or the rejected message of part_000
PermissionDenied(reason, text) ==
  \/ reason.name = "PermissionError" /\ reason.message = text
  \/ reason.name = "string" /\ reason.s = text

\* C6 as stated: a call answered 401 with a body beginning "Missing
\* permissions" fails with a permission-denied failure carrying the missing
\* flags of the response.
MissingPermissionsDenied ==
  \A c \in Callers :
    (AnsweredText(c, 401)
       /\ StartsWith(calls[c].answer.response.v.data.s, MissingPrefix)) =>
      /\ calls[c].result.st = "rejected"
      /\ PermissionDenied(calls[c].result.reason, calls[c].answer.response.v.data.s)

\* an invalid-token failure: the InvalidToken error of part_001, or the
\* rejection 'Invalid CIAM token' of index.ts and part_000
InvalidTokenFailure(reason) ==
  \/ reason.name = "InvalidToken"
  \/ reason.name = "string" /\ reason.s = InvalidCiamToken

\* C7 as stated: a call answered 401 with a body that does not begin with
\* "Missing permissions" fails with an invalid-token failure.
OtherUnauthorizedIsInvalidToken ==
  \A c \in Callers :
    (AnsweredText(c, 401)
       /\ ~StartsWith(calls[c].answer.response.v.data.s, MissingPrefix)) =>
      /\ calls[c].result.st = "rejected"
      /\ InvalidTokenFailure(calls[c].result.reason)

\* a network error, or a non-2xx status other than 401 and 404
TransportFailure(answer) ==
  /\ answer.kind = "error"
  /\ answer.response.def => answer.response.v.status \notin {401, 404}

\* C8 as stated: a transport-level failure reaches the caller of the request
\* method as that same error.
TransportFailurePropagates ==
  \A c \in Callers :
    (Answered(c) /\ calls[c].method \in ValidatingMethods
       /\ TransportFailure(calls[c].answer)) =>
      calls[c].result = Rejected(calls[c].answer)

\* a response body that is empty or absent
EmptyData(data) == data.k = "string" /\ Len(data.s) = 0

\* C9 as stated: a request method that receives a successful response
\* returns the decoded body when it is non-empty and an absent result when
\* it is empty.
ReturnsDecodedBody ==
  \A c \in Callers :
    (Answered(c) /\ calls[c].method \in ValidatingMethods
       /\ calls[c].answer.kind = "response") =>
      /\ calls[c].result.st = "fulfilled"
      /\ IF EmptyData(calls[c].answer.data)
         THEN ~calls[c].result.value.def
         ELSE /\ calls[c].result.value.def
              /\ calls[c].result.value.v = calls[c].answer.data

\* the number a string of decimal digits denotes
DigitValue(ch) == CHOOSE d \in 0..9 : DigitString[d + 1] = ch
RECURSIVE ParseNat(_)
ParseNat(ds) ==
  IF Len(ds) = 1 THEN DigitValue(ds[1])
  ELSE 10 * ParseNat(SubSeq(ds, 1, Len(ds) - 1)) + DigitValue(ds[Len(ds)])
IsNumeral(ds) == Len(ds) > 0 /\ \A i \in 1..Len(ds) : ds[i] \in DigitChars

ListBase(m) ==
  CASE m = "listRoles" -> "/role/list"
    [] m = "listUsers" -> "/user/list"
    [] m = "ownPermissions" -> "/permission/me"
    [] m = "listPermissions" -> "/permission/list"

\* the path is base?skip=<skip>&limit=<limit> and nothing else
QueryCarries(path, base, skip, limit) ==
  /\ Len(path) >= 5
  /\ path[1] = base
  /\ path[2] = "?skip="
  /\ \E k \in 4..(Len(path) - 1) :
       /\ path[k] = "&limit="
       /\ IsNumeral(SubSeq(path, 3, k - 1))
       /\ ParseNat(SubSeq(path, 3, k - 1)) = skip
       /\ IsNumeral(SubSeq(path, k + 1, Len(path)))
       /\ ParseNat(SubSeq(path, k + 1, Len(path))) = limit

\* the skip and limit of a list invocation: the given ones, else 0 and 100
GivenSkip(a) == IF "skip" \in DOMAIN a /\ a.skip.def THEN a.skip.v ELSE 0
GivenLimit(a) == IF "limit" \in DOMAIN a /\ a.limit.def THEN a.limit.v ELSE 100

\* a list invocation fails validation without a request when skip < 0,
\* limit < 1 or limit > 100, and otherwise issues a GET carrying skip and limit
ListContract(c) ==
  LET a == calls[c].args
      skip == GivenSkip(a)
      limit == GivenLimit(a)
  IN IF skip < 0 \/ limit < 1 \/ limit > 100
     THEN /\ Done(c) /\ calls[c].sent = <<>>
          /\ calls[c].result.st = "rejected"
          /\ calls[c].result.reason.name = "InvalidArgument"
     ELSE /\ Len(calls[c].sent) = 1
          /\ calls[c].sent[1].req.verb = "GET"
          /\ QueryCarries(calls[c].sent[1].req.path, ListBase(calls[c].method), skip, limit)

\* C10 as stated: every list operation (listRoles, listUsers,
\* ownPermissions, listPermissions) defaults skip to 0 and limit to 100,
\* fails validation without a request when skip < 0, limit < 1 or
\* limit > 100, and otherwise issues a GET whose query carries exactly
\* skip and limit.
EveryListIsPaged ==
  \A c \in Callers :
    (Invoked(c) /\ calls[c].method \in ListMethods) => ListContract(c)

\* C10 amended: in part_000 and part_001, whose list operations declare
\* skip and limit, every list operation defaults skip to 0 and limit to 100,
\* fails validation without a request when skip < 0, limit < 1 or
\* limit > 100 (1 and 100 accepted, 0 and 101 rejected), and otherwise
\* issues a GET whose query carries exactly skip and limit; listUsers() of
\* index.ts takes no arguments and sends GET /user/list without a query.
PagedListContract ==
  \A c \in Callers :
    (Invoked(c) /\ calls[c].method \in ListMethods) =>
      IF rev \in {RevPart000, RevPart001}
      THEN ListContract(c)
      ELSE /\ calls[c].method = "listUsers"
           /\ Len(calls[c].sent) = 1
           /\ calls[c].sent[1].req.verb = "GET"
           /\ calls[c].sent[1].req.path = <<"/user/list">>

\* C10 witness: a list call given skip 0 and limit 1 has issued its GET with
\* skip=0&limit=1.
PagedListWitness ==
  \E c \in Callers :
    /\ Invoked(c) /\ calls[c].method = "listPermissions"
    /\ calls[c].args.skip = Val(0) /\ calls[c].args.limit = Val(1)
    /\ calls[c].sent[1].req.path = <<"/permission/list", "?skip=", "0", "&limit=", "1">>

\* C12 as stated: deleteUser(userId) with a valid ObjectId issues its
\* DELETE against the user resource with that id, path /user/{userId}.
DeleteUserTargetsUser ==
  \A c \in Callers :
    (Invoked(c) /\ calls[c].method = "deleteUser" /\ Passed(c)) =>
      /\ Len(calls[c].sent) = 1
      /\ calls[c].sent[1].req.verb = "DELETE"
      /\ calls[c].sent[1].req.path = <<"/user/">> \o calls[c].args.id

\* C13 as stated: updateUser(user) with a user that passes validation POSTs
\* to /user/update a body that is the given user object, as updateRole and
\* updatePermission send the object they were given.
UpdateUserSendsUser ==
  \A c \in Callers :
    (Invoked(c) /\ calls[c].method = "updateUser" /\ Passed(c)) =>
      /\ Len(calls[c].sent) = 1
      /\ calls[c].sent[1].req.verb = "POST"
      /\ calls[c].sent[1].req.path = <<"/user/update">>
      /\ calls[c].sent[1].req.body.def
      /\ calls[c].sent[1].req.body.v = calls[c].args.user

\* the invocation failed validation on this field without a request
FailedOn(c, field) ==
  /\ Done(c)
  /\ calls[c].sent = <<>>
  /\ calls[c].result = Rejected(InvalidArgument(field))

\* an optional text field that exists and is the empty string
ExistsEmpty(a) == a.def /\ Len(a.v) = 0

\* C14 as stated: the update operations reject an object whose optional
\* text field exists and is empty, without a request, naming the field:
\* role.name and role.description for updateRole, permission.name and
\* permission.description for updatePermission, user.name for updateUser.
\* (Stated for objects whose other fields are valid and with one empty
\* field, so that the field to be named is the only failure.)
UpdateRejectsEmptyText ==
  \A c \in Callers :
    (Invoked(c) /\ rev # RevIndex) =>
      LET a == calls[c].args IN
      /\ (calls[c].method = "updateRole" /\ IsObjectId(a.role._id)
            /\ ~a.role.permissions.def) =>
           /\ (ExistsEmpty(a.role.name) /\ ~ExistsEmpty(a.role.description)) =>
                FailedOn(c, "role.name")
           /\ (ExistsEmpty(a.role.description) /\ ~ExistsEmpty(a.role.name)) =>
                FailedOn(c, "role.description")
      /\ (calls[c].method = "updatePermission" /\ IsStrictFlag(a.permission.flag)) =>
           /\ (ExistsEmpty(a.permission.name) /\ ~ExistsEmpty(a.permission.description)) =>
                FailedOn(c, "permission.name")
           /\ (ExistsEmpty(a.permission.description) /\ ~ExistsEmpty(a.permission.name)) =>
                FailedOn(c, "permission.description")
      /\ (calls[c].method = "updateUser" /\ IsObjectId(a.user._id)
            /\ ~a.user.roles.def /\ ~a.user.permissions.def /\ ~a.user.discord.def) =>
           (ExistsEmpty(a.user.name) => FailedOn(c, "user.name"))

\* the answer is an error response whose body carries a missing-flags list
CarriesMissing(answer) ==
  /\ answer.kind = "error" /\ answer.response.def
  /\ answer.response.v.data.k = "object"
  /\ answer.response.v.data.missing.def

\* C15 as stated: over the lifetime of the client, after any sequence of
\* setToken calls, a request method whose response carries a missing-flags
\* list fails with PermissionError.
MissingAlwaysPermissionError ==
  \A c \in Callers :
    (rev = RevPart001 /\ Answered(c) /\ calls[c].method \in ValidatingMethods
       /\ CarriesMissing(calls[c].answer)) =>
      calls[c].result =
        Rejected(PermissionError(calls[c].answer.response.v.data.missing.v))

\* C16 as stated, in the states where no /user/me answer is outstanding:
\* whenever the self user is set it is the user /user/me returned for the
\* current token.
SelfIsUserOfToken ==
  (rev = RevPart001 /\ pendingMe = {} /\ self.def) => self.v = UserOf(token)

\* what the claim calls the request of an invocation: target, body and bearer
Wire(sent) == [req |-> sent.req, bearer |-> sent.bearer]

\* the client as the constructor configured it
Constructed == Use(Create(1, TokenA))

\* C11 as stated: under every interleaving of invocations and setToken
\* calls, an invocation sends the request and returns the result it would
\* have sent and returned alone on the client as configured at construction.
RunsAsConstructed ==
  \A c \in DOMAIN calls :
    Passed(c) =>
      /\ Wire(calls[c].sent[1]) =
           Wire(Issue(Request(rev, calls[c].method, calls[c].args), Constructed))
      /\ Answered(c) =>
           calls[c].result =
             Settle(calls[c].method,
                    Intercept(rev, Constructed.intercepted, calls[c].answer))

\* one step seen from caller c: what it sends is fixed by its arguments and
\* the client's token and instance at the moment it is invoked, what it
\* returns by its own answer and the instance it sent on; no step of another
\* invocation or of setToken changes what c sent or returned
IndependentStep(c) ==
  LET old == calls[c]
      new == calls'[c]
  IN /\ old.pc = "idle" =>
          \/ new = old
          \/ /\ new.pc = "done" /\ new.sent = <<>>
             /\ Validate(rev, new.method, new.args) # Ok
          \/ /\ new.pc = "awaiting"
             /\ new.sent = <<Issue(Request(rev, new.method, new.args), api)>>
             /\ new.sent[1].bearer = token
     /\ old.pc = "awaiting" =>
          \/ new = old
          \/ /\ new.pc = "done"
             /\ new.method = old.method /\ new.args = old.args
             /\ new.sent = old.sent
             /\ new.result =
                  Settle(old.method,
                         Intercept(rev, old.sent[1].intercepted, new.answer))
     /\ old.pc = "done" => new = old

\* C11, amended: an invocation sends its request with the token and on the
\* transport instance the client has at the moment it is invoked, and its
\* result depends only on its own arguments, its own answer and that
\* instance; invocations running concurrently and setToken calls made after
\* it was invoked change neither.
InvocationsIndependent ==
  [][\A c \in DOMAIN calls : IndependentStep(c)]_vars

\* two invocations of one client in flight together, one sent before and one
\* after a setToken to another token, both answered
InvocationsIndependentWitness ==
  /\ rev = RevPart001
  /\ Cardinality(DOMAIN calls) = 2
  /\ \E c, d \in DOMAIN calls :
       /\ Answered(c) /\ Answered(d)
       /\ calls[c].sent[1].bearer = TokenA /\ calls[c].sent[1].intercepted
       /\ calls[d].sent[1].bearer = TokenB /\ ~calls[d].sent[1].intercepted
       /\ CarriesMissing(calls[c].answer) /\ CarriesMissing(calls[d].answer)
       /\ calls[c].result # calls[d].result

=============================================================================
